---- MODULE Spec2Model ----
(***************************************************************************)
(* A model of the JumpRope skip-list rope of jumprope-rs (src/src/lib.rs). *)
(*                                                                         *)
(* Two specifications are given.                                           *)
(*   Spec      the public Rope trait on a rope built by JumpRope::new():    *)
(*             insert, del, slice, to_string, len and char_len, one action  *)
(*             per call.  A call that panics ends the behaviour.            *)
(*   SpecIter  the internal traversal iter_at_char, one action per turn of  *)
(*             its loop, started on any well-formed rope of a bounded size  *)
(*             and any target offset.                                       *)
(*                                                                         *)
(* Strings are sequences of UTF-8 bytes.  Pointers are integers: NULL, the  *)
(* address of the sentinel embedded in the rope (HeadAddr), and 1..n for   *)
(* heap nodes.  Levels are counted from 0 as in the source; the skip entry  *)
(* of level L is skips[L + 1].                                             *)
(***************************************************************************)
EXTENDS Integers, Sequences, FiniteSets

VARIABLES
    rope,      \* the JumpRope: num_chars, num_bytes and the sentinel node `skips`
    heap,      \* the nodes behind raw pointers, by address 1..Len(heap)
    op,        \* the public call made last: name and arguments
    result,    \* what that call gave back
    char_pos,  \* iter_at_char: its argument
    e,         \* iter_at_char: the node the walk is at
    height,    \* iter_at_char: the level the walk is at
    offset,    \* iter_at_char: how many more chars to skip
    iter,      \* iter_at_char: the RopeIter being filled
    pc         \* iter_at_char: position in the function

vars == <<rope, heap, op, result, char_pos, e, height, offset, iter, pc>>

(***************************************************************************)
(* Bounds of the model.                                                    *)
(***************************************************************************)
\* Positions handed to insert/del/slice range over 0..MaxPos.
MaxPos == 3
\* Lengths handed to del/slice range over 0..MaxLen.
MaxLen == 2
\* Texts handed to insert have at most MaxTextChars characters.
MaxTextChars == 2
\* Ropes walked by iter_at_char have at most MaxNodes nodes after the sentinel,
MaxNodes == 3
\* each holding 1..MaxNodeChars characters,
MaxNodeChars == 2
\* and a sentinel of height 1..MaxLevels.
MaxLevels == 2

(***************************************************************************)
(* Constants of the program.                                               *)
(***************************************************************************)
MAX_HEIGHT == 13
\* mem::size_of::<SkipEntry>() on a 64-bit target: a usize and a pointer.
SizeOfSkipEntry == 16
NULL == 0
HeadAddr == -1

max_bytes_per_node == MAX_HEIGHT * SizeOfSkipEntry

(***************************************************************************)
(* UTF-8 text.                                                             *)
(***************************************************************************)
\* Four of the test characters, one of each encoded width: 'a', U+00A9,
\* U+2190 and U+10190.
UCHARS == << <<97>>, <<194, 169>>, <<226, 134, 144>>, <<240, 144, 134, 144>> >>

RECURSIVE Concat(_)
\* The concatenation of a sequence of strings.
Concat(ss) == IF ss = <<>> THEN <<>> ELSE Head(ss) \o Concat(Tail(ss))

\* The byte b continues a multi-byte encoding (10xxxxxx).
IsContinuation(b) == b >= 128 /\ b < 192

\* str::chars().count(): the scalar values of a UTF-8 string, one per byte that
\* does not continue an encoding.
CharCount(s) == Cardinality({i \in 1..Len(s) : ~IsContinuation(s[i])})

\* The strings of exactly n characters over the characters cs.
RECURSIVE TextsOfLen(_, _)
TextsOfLen(cs, n) ==
    IF n = 0 THEN {<<>>}
    ELSE {c \o t : c \in cs, t \in TextsOfLen(cs, n - 1)}

UcharSet == {UCHARS[i] : i \in 1..Len(UCHARS)}

\* The texts insert is called with.
Texts == UNION {TextsOfLen(UcharSet, n) : n \in 0..MaxTextChars}

(***************************************************************************)
(* SkipEntry and Node.                                                     *)
(***************************************************************************)
\* A fresh entry that claims one character ahead of it.
SkipEntry_new_bad == [num_chars |-> 1, node |-> NULL]

\* SkipEntry::new: no characters, no next node.
SkipEntry_new == [num_chars |-> 0, node |-> NULL]

\* Node::new_with_height: `h` fresh skip entries and no content.  The rest of
\* the skips array is left uninitialized and is not part of the model's node:
\* it is only ever read up to num_bytes.
new_with_height(h) ==
    [height |-> h, num_bytes |-> 0,
     skips |-> [i \in 1..h |-> SkipEntry_new],
     content |-> <<>>]

\* The node behind a non-null pointer.
Deref(r, hp, p) == IF p = HeadAddr THEN r.skips ELSE hp[p]

\* Node::to_str: the content in use.
to_str(n) == SubSeq(n.content, 1, n.num_bytes)

\* Node::next: the level-0 successor.
next(n) == n.skips[1].node

(***************************************************************************)
(* JumpRope.                                                               *)
(***************************************************************************)
\* A new rope whose byte total starts at one.
JumpRope_new_bad == [num_chars |-> 0, num_bytes |-> 1, skips |-> new_with_height(1)]

\* JumpRope::new: no characters, no bytes, a sentinel of height 1.
JumpRope_new == [num_chars |-> 0, num_bytes |-> 0, skips |-> new_with_height(1)]

\* JumpRope::head: the first node after the sentinel.
head(r) == next(r.skips)

RECURSIVE Walk(_, _, _)
\* The loop of to_string: the contents from node p to the end of the chain.
Walk(r, hp, p) ==
    IF p = NULL THEN <<>>
    ELSE to_str(Deref(r, hp, p)) \o Walk(r, hp, next(Deref(r, hp, p)))

to_string(r, hp) == Walk(r, hp, head(r))

len(r) == r.num_bytes

char_len(r) == r.num_chars

(***************************************************************************)
(* The public operations (Spec).                                           *)
(***************************************************************************)
NoOp == [name |-> "new", pos |-> 0, len |-> 0, contents |-> <<>>]
NoResult == [status |-> "none", str |-> <<>>, num |-> 0]
Ok == [status |-> "Ok", str |-> <<>>, num |-> 0]
Panic == [status |-> "panic", str |-> <<>>, num |-> 0]
PositionOutOfBounds == [status |-> "PositionOutOfBounds", str |-> <<>>, num |-> 0]

IterIdle ==
    /\ char_pos = 0
    /\ e = NULL
    /\ height = 0
    /\ offset = 0
    /\ iter = [i \in 1..MAX_HEIGHT |-> SkipEntry_new]
    /\ pc = "idle"

iterVars == <<char_pos, e, height, offset, iter, pc>>

Init ==
    /\ rope = JumpRope_new
    /\ heap = <<>>
    /\ op = NoOp
    /\ result = NoResult
    /\ IterIdle

\* A panic unwinds out of the caller: nothing is called after it.
Running == result.status # "panic"

\* The early return taken on the opposite condition.
InsertReturnsEarly_bad(contents) == Len(contents) # 0

\* insert returns at once when contents is empty.
InsertReturnsEarly(contents) == Len(contents) = 0

\* insert(pos, ""): Ok, before pos is looked at.
InsertEmpty ==
    \E pos \in 0..MaxPos, contents \in Texts :
        /\ Running
        /\ InsertReturnsEarly(contents)
        /\ op' = [name |-> "insert", pos |-> pos, len |-> 0, contents |-> contents]
        /\ result' = Ok
        /\ UNCHANGED <<rope, heap, iterVars>>

\* insert(pos, text), text non-empty: unimplemented!() panics.
InsertUnimplemented ==
    \E pos \in 0..MaxPos, contents \in Texts :
        /\ Running
        /\ ~InsertReturnsEarly(contents)
        /\ op' = [name |-> "insert", pos |-> pos, len |-> 0, contents |-> contents]
        /\ result' = Panic
        /\ UNCHANGED <<rope, heap, iterVars>>

\* del(pos, len): unimplemented!() panics.
Del ==
    \E pos \in 0..MaxPos, n \in 0..MaxLen :
        /\ Running
        /\ op' = [name |-> "del", pos |-> pos, len |-> n, contents |-> <<>>]
        /\ result' = Panic
        /\ UNCHANGED <<rope, heap, iterVars>>

\* slice(pos, len): unimplemented!() panics.
Slice ==
    \E pos \in 0..MaxPos, n \in 0..MaxLen :
        /\ Running
        /\ op' = [name |-> "slice", pos |-> pos, len |-> n, contents |-> <<>>]
        /\ result' = Panic
        /\ UNCHANGED <<rope, heap, iterVars>>

ToString ==
    /\ Running
    /\ op' = [name |-> "to_string", pos |-> 0, len |-> 0, contents |-> <<>>]
    /\ result' = [status |-> "String", str |-> to_string(rope, heap), num |-> 0]
    /\ UNCHANGED <<rope, heap, iterVars>>

LenCall ==
    /\ Running
    /\ op' = [name |-> "len", pos |-> 0, len |-> 0, contents |-> <<>>]
    /\ result' = [status |-> "usize", str |-> <<>>, num |-> len(rope)]
    /\ UNCHANGED <<rope, heap, iterVars>>

CharLenCall ==
    /\ Running
    /\ op' = [name |-> "char_len", pos |-> 0, len |-> 0, contents |-> <<>>]
    /\ result' = [status |-> "usize", str |-> <<>>, num |-> char_len(rope)]
    /\ UNCHANGED <<rope, heap, iterVars>>

Next ==
    \/ InsertEmpty
    \/ InsertUnimplemented
    \/ Del
    \/ Slice
    \/ ToString
    \/ LenCall
    \/ CharLenCall

Spec == Init /\ [][Next]_vars

(***************************************************************************)
(* Well-formed ropes, the inputs of iter_at_char (SpecIter).               *)
(*                                                                         *)
(* A rope is described by the height of its sentinel and, for each node of *)
(* the level-0 chain in order, its height and its number of characters.    *)
(* Every node after the sentinel holds at least one character (the walk    *)
(* asserts it of every node it leaves), a node's level-L entry points to   *)
(* the next node of height above L, and its num_chars is the number of     *)
(* characters from the start of the node to the start of that next node.   *)
(***************************************************************************)
\* The content of a node of n characters: the first n test characters.
NodeText(n) == Concat(SubSeq(UCHARS, 1, n))

Descrs(h0) ==
    UNION {[1..n -> [height : 1..h0, chars : 1..MaxNodeChars]] : n \in 0..MaxNodes}

\* The address of the first node after node i (0: the sentinel) whose height is
\* above level L, or NULL.
NextAt(d, i, L) ==
    LET S == {j \in (i + 1)..Len(d) : d[j].height > L}
    IN  IF S = {} THEN NULL ELSE CHOOSE j \in S : \A k \in S : j <= k

RECURSIVE CharsIn(_, _, _)
\* The characters held by the nodes from..to of d.
CharsIn(d, from, to) ==
    IF from > to THEN 0 ELSE d[from].chars + CharsIn(d, from + 1, to)

\* The level-L skip entry of node i (0: the sentinel, which holds no characters).
EntryAt(d, i, L) ==
    LET nx == NextAt(d, i, L)
        first == IF i = 0 THEN 1 ELSE i
    IN  [num_chars |-> CharsIn(d, first, IF nx = NULL THEN Len(d) ELSE nx - 1),
         node |-> nx]

BuildNode(d, i) ==
    [height |-> d[i].height,
     num_bytes |-> Len(NodeText(d[i].chars)),
     skips |-> [l \in 1..d[i].height |-> EntryAt(d, i, l - 1)],
     content |-> NodeText(d[i].chars)]

BuildHeap(d) == [i \in 1..Len(d) |-> BuildNode(d, i)]

BuildRope(h0, d) ==
    [num_chars |-> CharsIn(d, 1, Len(d)),
     num_bytes |-> Len(Concat([i \in 1..Len(d) |-> NodeText(d[i].chars)])),
     skips |-> [height |-> h0, num_bytes |-> 0,
                skips |-> [l \in 1..h0 |-> EntryAt(d, 0, l - 1)],
                content |-> <<>>]]

(***************************************************************************)
(* iter_at_char (SpecIter).                                                *)
(***************************************************************************)
InitIter ==
    /\ \E h0 \in 1..MaxLevels :
         \E d \in Descrs(h0) :
            /\ rope = BuildRope(h0, d)
            /\ heap = BuildHeap(d)
    /\ char_pos \in 0..(rope.num_chars + 1)
    /\ e = NULL
    /\ height = 0
    /\ offset = 0
    /\ iter = [i \in 1..MAX_HEIGHT |-> SkipEntry_new]
    /\ pc = "start"
    /\ op = NoOp
    /\ result = NoResult

\* The entry of the loop: the asserted precondition, then the walk's variables.
IterStart ==
    /\ pc = "start"
    /\ IF char_pos <= rope.num_chars
       THEN /\ e' = HeadAddr
            /\ height' = rope.skips.height - 1
            /\ offset' = char_pos
            /\ iter' = [i \in 1..MAX_HEIGHT |-> SkipEntry_new]
            /\ pc' = "loop"
       ELSE /\ pc' = "panic"
            /\ UNCHANGED <<e, height, offset, iter>>
    /\ UNCHANGED <<rope, heap, op, result, char_pos>>

\* The skip entry the loop reads: en.skips[height].
CurEntry == Deref(rope, heap, e).skips[height + 1]

\* The comparison let through on equality.
GoesRightGe(off, skip) == off >= skip

\* `if offset > skip`: the walk goes right.
GoesRight(off, skip) == off > skip

\* The remaining offset left as it was.
AdvanceNoSub(off, skip) == off

\* `offset -= skip`
Advance(off, skip) == off - skip

\* Go right: past the current node to its successor at this level.
GoRight ==
    /\ pc = "loop"
    /\ GoesRight(offset, CurEntry.num_chars)
    /\ IF e = HeadAddr \/ Deref(rope, heap, e).num_bytes > 0
       THEN /\ offset' = Advance(offset, CurEntry.num_chars)
            /\ e' = CurEntry.node
            /\ pc' = IF CurEntry.node = NULL THEN "panic" ELSE "loop"
       ELSE /\ pc' = "panic"
            /\ UNCHANGED <<offset, e>>
    /\ UNCHANGED <<rope, heap, op, result, char_pos, height, iter>>

\* The assignment iter.skips[height] = SkipEntry { num_chars: offset, node: e }.
Record(it, h, off, n) == [it EXCEPT ![h + 1] = [num_chars |-> off, node |-> n]]

\* Record this and go down a level.
GoDown ==
    /\ pc = "loop"
    /\ ~GoesRight(offset, CurEntry.num_chars)
    /\ height # 0
    /\ iter' = Record(iter, height, offset, e)
    /\ height' = height - 1
    /\ UNCHANGED <<rope, heap, op, result, char_pos, e, offset, pc>>

\* Record this at level 0 and leave the loop.
Break ==
    /\ pc = "loop"
    /\ ~GoesRight(offset, CurEntry.num_chars)
    /\ height = 0
    /\ iter' = Record(iter, height, offset, e)
    /\ pc' = "break"
    /\ UNCHANGED <<rope, heap, op, result, char_pos, e, offset, height>>

\* The assertion after the loop, and the return.
Return ==
    /\ pc = "break"
    /\ pc' = IF offset <= max_bytes_per_node THEN "done" ELSE "panic"
    /\ UNCHANGED <<rope, heap, op, result, char_pos, e, offset, height, iter>>

NextIter ==
    \/ IterStart
    \/ GoRight
    \/ GoDown
    \/ Break
    \/ Return

\* The function runs to its end: a step that can be taken is taken.
SpecIter == InitIter /\ [][NextIter]_vars /\ WF_vars(NextIter)

(***************************************************************************)
(* What the claims are stated with.                                        *)
(***************************************************************************)
\* The bytes of the encoding that the lead byte b starts.
Utf8Width(b) ==
    IF b < 128 THEN 1 ELSE IF b < 224 THEN 2 ELSE IF b < 240 THEN 3 ELSE 4

RECURSIVE CharsOf(_)
\* A UTF-8 string as the sequence of its characters.
CharsOf(s) ==
    IF s = <<>> THEN <<>>
    ELSE LET w == Utf8Width(s[1])
         IN  <<SubSeq(s, 1, w)>> \o CharsOf(SubSeq(s, w + 1, Len(s)))

\* The characters from..to (counted from 1) of s, as a string.
CharRange(s, from, to) == Concat(SubSeq(CharsOf(s), from, to))

\* s with t put in at character offset p.
Splice(s, p, t) ==
    CharRange(s, 1, p) \o t \o CharRange(s, p + 1, Len(CharsOf(s)))

Min(a, b) == IF a < b THEN a ELSE b

\* s without the n characters that follow character offset p.
Remove(s, p, n) ==
    CharRange(s, 1, p) \o CharRange(s, p + n + 1, Len(CharsOf(s)))

RECURSIVE CharsUntil(_, _, _, _)
\* The characters held by the level-0 chain from the start of node p up to the
\* start of node q, or up to the end of the document when q is NULL.
CharsUntil(r, hp, p, q) ==
    IF p = q \/ p = NULL THEN 0
    ELSE CharCount(to_str(Deref(r, hp, p)))
             + CharsUntil(r, hp, next(Deref(r, hp, p)), q)

\* The sentinel and every heap node.
Addrs(hp) == {HeadAddr} \cup (1..Len(hp))

\* Every skip entry's num_chars is the distance to the node it points to.
SkipsConsistent(r, hp) ==
    \A p \in Addrs(hp) :
        \A l \in 1..Deref(r, hp, p).height :
            LET en == Deref(r, hp, p).skips[l]
            IN  en.num_chars = CharsUntil(r, hp, p, en.node)

\* C1: in every state reached from JumpRope::new() by successful calls, len()
\* is the byte length of to_string() and char_len() is its number of
\* characters; on the new rope all three are empty or zero.
C1_LengthConsistency ==
    /\ len(rope) = Len(to_string(rope, heap))
    /\ char_len(rope) = CharCount(to_string(rope, heap))
    /\ op.name = "new" =>
          /\ to_string(rope, heap) = <<>>
          /\ len(rope) = 0
          /\ char_len(rope) = 0

\* A successful insert has been made and the rope is then read back.
C1_Witness ==
    /\ op.name = "insert"
    /\ result = Ok
    /\ to_string(rope, heap) = <<>>
    /\ len(rope) = 0

\* C2: insert(p, s) with p <= char_len() and s non-empty returns success and
\* leaves to_string() equal to the old contents with s spliced in at
\* character offset p.
C2_InsertSplices ==
    [][(/\ op'.name = "insert"
        /\ op'.pos <= char_len(rope)
        /\ op'.contents # <<>>)
       => /\ result' = Ok
          /\ to_string(rope', heap')
                = Splice(to_string(rope, heap), op'.pos, op'.contents)]_vars

\* C3: del(p, n) with p <= char_len() returns success and removes exactly
\* min(n, char_len() - p) characters from character offset p on.
C3_DelRemoves ==
    [][(/\ op'.name = "del"
        /\ op'.pos <= char_len(rope))
       => /\ result' = Ok
          /\ to_string(rope', heap')
                = Remove(to_string(rope, heap), op'.pos,
                         Min(op'.len, char_len(rope) - op'.pos))]_vars

\* C4: slice(p, n) with p + n <= char_len() returns success with the
\* characters p .. p + n - 1 of to_string() and leaves the rope as it was.
C4_SliceReads ==
    [][(/\ op'.name = "slice"
        /\ op'.pos + op'.len <= char_len(rope))
       => /\ result'.status = "Ok"
          /\ result'.str
                = CharRange(to_string(rope, heap), op'.pos + 1, op'.pos + op'.len)
          /\ rope' = rope
          /\ heap' = heap]_vars

\* C5: insert(pos, text) with pos > char_len() returns PositionOutOfBounds
\* (no panic, no success) and leaves to_string(), len() and char_len() as
\* they were.
C5_InsertOutOfBounds ==
    [][(/\ op'.name = "insert"
        /\ op'.pos > char_len(rope))
       => /\ result' = PositionOutOfBounds
          /\ to_string(rope', heap') = to_string(rope, heap)
          /\ len(rope') = len(rope)
          /\ char_len(rope') = char_len(rope)]_vars

\* C6: insert(p, "") with p <= char_len() returns success and leaves the
\* totals and the whole node chain (so to_string(), len(), char_len()) as
\* they were.
C6_InsertEmptyNoOp ==
    [][(/\ op'.name = "insert"
        /\ op'.pos <= char_len(rope)
        /\ op'.contents = <<>>)
       => /\ result' = Ok
          /\ rope' = rope
          /\ heap' = heap]_vars

\* insert(p, "") has been called within bounds and has returned success.
C6_Witness ==
    /\ op.name = "insert"
    /\ op.contents = <<>>
    /\ op.pos <= char_len(rope)
    /\ result = Ok

\* C7: in every reachable state the sentinel has height MAX_HEIGHT and holds
\* no content bytes.
C7_HeadIsMaxHeight ==
    /\ rope.skips.height = MAX_HEIGHT
    /\ rope.skips.num_bytes = 0

\* C8: before and after every public operation, every skip entry of every
\* node, the sentinel included, counts the characters from the start of its
\* node to the start of the node it points to, or to the end of the
\* document when it points nowhere.
C8_SkipsConsistent == SkipsConsistent(rope, heap)

\* A public operation has returned and the sentinel's level-0 entry spans the
\* whole (empty) document.
C8_Witness ==
    /\ op.name \in {"insert", "to_string"}
    /\ result.status \in {"Ok", "String"}
    /\ rope.skips.skips[1].node = NULL
    /\ rope.skips.skips[1].num_chars = char_len(rope)

\* The turn of the loop went right: on to the entry's node, the entry's
\* distance taken off the remaining offset, the level kept.
WentRight ==
    /\ e' = CurEntry.node
    /\ offset' = offset - CurEntry.num_chars
    /\ height' = height
    /\ iter' = iter

\* The turn of the loop recorded the current node and the remaining offset for
\* this level and, above level 0, dropped one level with the same offset.
RecordedAndWentDown ==
    /\ iter' = [iter EXCEPT ![height + 1] = [num_chars |-> offset, node |-> e]]
    /\ e' = e
    /\ offset' = offset
    /\ height # 0 => height' = height - 1

\* C9 as stated: at each level the walk advances exactly when the distance to
\* the next node is less than or equal to the remaining offset, and otherwise
\* records and drops a level.  Stated of the turns where there is a next
\* node at that level to advance to.
C9_AdvancesWhenLessOrEqual ==
    [][(pc = "loop" /\ CurEntry.node # NULL) =>
          IF CurEntry.num_chars <= offset
          THEN WentRight
          ELSE RecordedAndWentDown]_vars

\* C9 amended: at each level the walk advances exactly when the distance to
\* the next node is strictly less than the remaining offset; when the distance
\* is equal to or greater than the remaining offset it records the current
\* node and the remaining offset and drops a level (or stops at level 0).
C9_AdvancesWhenStrictlyLess ==
    [][pc = "loop" =>
          IF CurEntry.num_chars < offset
          THEN WentRight
          ELSE RecordedAndWentDown]_vars

\* The walk has recorded, at the level above the current one, a node whose
\* distance to an existing next node equals the remaining offset, and has
\* not advanced to that next node; elsewhere on the same walk it did advance.
C9_Witness ==
    /\ pc = "loop"
    /\ height + 1 < rope.skips.height
    /\ iter[height + 2].node = e
    /\ e # HeadAddr
    /\ Deref(rope, heap, e).skips[height + 2].node # NULL
    /\ Deref(rope, heap, e).skips[height + 2].num_chars = iter[height + 2].num_chars
    /\ iter[height + 2].num_chars > 0

\* The entry iter_at_char recorded for level L (counted from 0).
Recorded(L) == iter[L + 1]

\* The inputs C10 speaks of: consistent skip distances and a target offset
\* inside the document or at its end.
IterInputOk == SkipsConsistent(rope, heap) /\ char_pos <= rope.num_chars

\* What C10 says of a state of the walk.
IterSound ==
    /\ pc = "panic" => ~IterInputOk
    /\ (pc = "done" /\ IterInputOk) =>
          /\ \A L \in 0..(rope.skips.height - 1) :
                /\ Recorded(L).node \in Addrs(heap)
                /\ CharsUntil(rope, heap, HeadAddr, Recorded(L).node)
                      + Recorded(L).num_chars = char_pos
          /\ Recorded(0).num_chars
                <= CharCount(to_str(Deref(rope, heap, Recorded(0).node)))

====
